---- MODULE Spec2Model ----
(***************************************************************************)
(* Geocoin Carrier (src/src/main.ts, lines 1-593): a player moves over a   *)
(* grid of cells, caches spawn deterministically per cell, tokens move     *)
(* between cache pools and the player's inventory, and the world is saved  *)
(* to and restored from one persisted blob.                                *)
(*                                                                         *)
(* Scale.  The model's grid is coarser than the program's: one model tile *)
(* stands for a block of 4 x 4 tiles of TILE_DEGREES, so that the          *)
(* neighbourhood of NEIGHBORHOOD_SIZE = 2 model tiles covers the 8 tiles   *)
(* of the program and the visibility radius of 40 m stays at about half    *)
(* the neighbourhood, as in the program.  A coordinate is an integer       *)
(* number of half model tiles, so that a position has an offset inside     *)
(* its cell.  luck() values are integers in 0 .. LUCK_SCALE-1 standing for *)
(* luck/LUCK_SCALE.  Coordinate arithmetic is exact (the rounding of IEEE  *)
(* doubles is not modelled).                                               *)
(***************************************************************************)
EXTENDS Integers, Sequences, FiniteSets, TLC

VARIABLES
    playerPos,              \* playerMarker.getLatLng()
    playerMovementHistory,  \* polyline of the manual moves
    caches,                 \* Map<string, Cache>: cell key -> cache
    userCoins,              \* the inventory
    mapLayers,              \* the cache markers currently on the map
    statusPanel,            \* statusPanel.innerHTML
    gameState,              \* localStorage["gameState"]: <<>> when absent, else <<blob>>
    cellInstances,          \* Cell.cellInstances (keys of the interned cells)
    geolocationWatchId,     \* TRUE while the sensor subscription is active
    generatedAt,            \* the cells of the centres generateCaches was called
                            \* with, in order, since the store was last cleared
    loadHandler,            \* how the DOMContentLoaded handler of line 307 ended
                            \* on this page: "completed" or "threw"
    beforeCollect,          \* <<pool, inventory>> as they were before the last
                            \* handler when it was a collect that took a token,
                            \* else <<>>
    openPopup,              \* <<>> when no popup is open, else <<marker>>
    clickListeners,         \* click listeners on each button of the open popup
    deferred,               \* coordinates of the attachPopupButtons calls that
                            \* setTimeout has queued and not yet run
    steps,                  \* number of events handled so far
    lastEvent               \* the handler that ran last, with its arguments

popupVars == <<openPopup, clickListeners, deferred>>

vars == <<playerPos, playerMovementHistory, caches, userCoins, mapLayers,
          statusPanel, gameState, cellInstances, geolocationWatchId,
          generatedAt, loadHandler, beforeCollect, openPopup, clickListeners,
          deferred, steps, lastEvent>>

(***************************************************************************)
(* Program constants                                                       *)
(***************************************************************************)
TILE_DEGREES == 2
NEIGHBORHOOD_SIZE == 2
LUCK_SCALE == 1000
CACHE_SPAWN_PROBABILITY == 100
VISIBILITY_RADIUS == 40
LAT_DM_PER_UNIT == 222
LNG_DM_PER_UNIT == 178
OAKES_CLASSROOM == [lat |-> 1, lng |-> -2]

(***************************************************************************)
(* Bounds of the model                                                     *)
(***************************************************************************)
MaxSteps == 4
MaxPopupSteps == 6
MaxDeferred == 2
MaxCoordinate == 9

SensorPositions == { [lat |-> 0, lng |-> -2] }
PromptAnswers == {"yes", "YES", "no", "null"}

NoBlob == <<>>
\* A stored text that JSON.parse rejects.
Garbage == [text |-> "{"]
\* A stored text that parses to an object without the field "caches".
PartialBlob ==
    [ playerPosition |-> [lat |-> 3, lng |-> -2],
      playerCoins |-> <<[serial |-> 0, initialLat |-> 1, initialLng |-> 0]>>,
      statusPanelContent |-> <<"Player has no coins">> ]
\* What localStorage["gameState"] holds when the page is opened for the
\* first time: nothing, or a text some other writer left there.
FirstVisitStorage == { NoBlob, <<Garbage>>, <<PartialBlob>> }
NoCell == <<>>
EmptyMap == <<>>
NoCoinsStatus == <<"Player has no coins">>

LatLng(lat, lng) == [lat |-> lat, lng |-> lng]

(***************************************************************************)
(* Seeded randomness.  luck.ts is imported by main.ts and is not part of   *)
(* the sources at hand: it is a pure function of the key string.  A key    *)
(* is the tuple of the values the code joins with commas.                  *)
(***************************************************************************)
SpawnCells == { <<0, 0>>, <<0, -2>>, <<0, 1>>, <<3, -1>> }

luck(key) ==
    IF Len(key) = 2
    THEN IF key \in SpawnCells THEN 50
         ELSE 100 + ((key[1] * 7 + key[2] * 13) % 900)
    ELSE IF key[1] = 1 /\ key[2] = -4 THEN 305
         ELSE ((key[1] + key[2] + 2) % 3) * 10 + 5

(***************************************************************************)
(* Grid index                                                              *)
(***************************************************************************)
\* Fault variant: the quotient is truncated towards zero.
getCellTruncating(lat, lng) ==
    [i |-> IF lat >= 0 THEN lat \div TILE_DEGREES ELSE -((-lat) \div TILE_DEGREES),
     j |-> IF lng >= 0 THEN lng \div TILE_DEGREES ELSE -((-lng) \div TILE_DEGREES)]

\* Cell.getCell: i = floor(lat / T), j = floor(lng / T); \div is the
\* mathematical floor, also for negative coordinates.
getCell(lat, lng) == [i |-> lat \div TILE_DEGREES, j |-> lng \div TILE_DEGREES]

\* Fault variant: the indices are joined in the other order.
positionKeySwapped(cell) == <<cell.j, cell.i>>

\* `${cell.i},${cell.j}`
positionKey(cell) == <<cell.i, cell.j>>

KeyOf(latLng) == positionKey(getCell(latLng.lat, latLng.lng))

(***************************************************************************)
(* Caches, tokens, markers                                                 *)
(***************************************************************************)
\* A marker is an object: its identity is the coordinate it was created at
\* and the place that created it ("startup": the generation at line 592,
\* "move": a generation in a move handler, "load": loadGameState).  The
\* store is cleared only by loadGameState, which runs once per page, so no
\* two markers of one page share both.
Marker(latLng, born) == [latLng |-> latLng, born |-> born]

Coin(serial, lat, lng) == [serial |-> serial, initialLat |-> lat, initialLng |-> lng]

\* num_coins = Math.floor(luck([lat, lng, "initialValue"].toString()) * 100) + 1
NumCoins(lat, lng) == (luck(<<lat, lng, "initialValue">>) * 100) \div LUCK_SCALE + 1

\* Fault variant: the loop runs to i <= num_coins and mints one token more.
CoinLoopBoundInclusive(n) == n + 1

\* for (let i = 0; i < num_coins; i++): the number of iterations.
CoinLoopBound(n) == n

\* for (let i = 0; i < num_coins; i++) coins.push({serial: i, initialLat, initialLng})
MintCoins(n, lat, lng) == [s \in 1..CoinLoopBound(n) |-> Coin(s - 1, lat, lng)]

\* new Geocache(coins, marker): initialCoinCount = coins.length
Geocache(coins, marker) ==
    [coins |-> coins, marker |-> marker, initialCoinCount |-> Len(coins)]

\* center.distanceTo(other) <= radius, the distance taken on the plane at
\* the latitude of the starting coordinate, in decimetres.
DistanceSq(a, b) ==
    ((a.lat - b.lat) * LAT_DM_PER_UNIT) * ((a.lat - b.lat) * LAT_DM_PER_UNIT)
    + ((a.lng - b.lng) * LNG_DM_PER_UNIT) * ((a.lng - b.lng) * LNG_DM_PER_UNIT)

WithinRadius(center, latLng, radius) ==
    DistanceSq(center, latLng) <= (radius * 10) * (radius * 10)

(***************************************************************************)
(* World generator                                                         *)
(***************************************************************************)
\* Fault variant: the loops stop one short of +neighborhoodSize.
GenSitesExclusive(center) ==
    { LatLng(center.lat + x * TILE_DEGREES, center.lng + y * TILE_DEGREES) :
        x \in -NEIGHBORHOOD_SIZE..(NEIGHBORHOOD_SIZE - 1),
        y \in -NEIGHBORHOOD_SIZE..(NEIGHBORHOOD_SIZE - 1) }

\* The coordinates the two loops visit: center + (x, y) * tileDegrees.
GenSites(center) ==
    { LatLng(center.lat + x * TILE_DEGREES, center.lng + y * TILE_DEGREES) :
        x \in -NEIGHBORHOOD_SIZE..NEIGHBORHOOD_SIZE,
        y \in -NEIGHBORHOOD_SIZE..NEIGHBORHOOD_SIZE }

\* Fault variant: the test caches.has(positionKey) is missing.
SpawnsAtIgnoringStore(cs, site) ==
    luck(KeyOf(site)) < CACHE_SPAWN_PROBABILITY

\* if (!caches.has(positionKey)) and luck(positionKey) < CACHE_SPAWN_PROBABILITY
SpawnsAt(cs, site) ==
    /\ KeyOf(site) \notin DOMAIN cs
    /\ luck(KeyOf(site)) < CACHE_SPAWN_PROBABILITY

\* The cache built for one loop iteration (lines 404-429).
NewCache(site, born) ==
    [ Geocache(MintCoins(NumCoins(site.lat, site.lng), site.lat, site.lng),
               Marker(site, born))
      EXCEPT !.initialCoinCount = NumCoins(site.lat, site.lng) ]

\* Fault variant: the caches of cells outside the neighbourhood are dropped.
generateCachesPruning(cs, center, born) ==
    LET new == { s \in GenSites(center) : SpawnsAt(cs, s) }
        keys == { KeyOf(s) : s \in new }
        near == { KeyOf(s) : s \in GenSites(center) }
    IN  [k \in (DOMAIN cs \cap near) \cup keys |->
            IF k \in keys
            THEN NewCache(CHOOSE s \in new : KeyOf(s) = k, born)
            ELSE cs[k]]

\* generateCaches: the sites of one call fall into pairwise different
\* cells, so the order of the loop does not matter.
generateCaches(cs, center, born) ==
    LET new == { s \in GenSites(center) : SpawnsAt(cs, s) }
        keys == { KeyOf(s) : s \in new }
    IN  [k \in DOMAIN cs \cup keys |->
            IF k \in keys
            THEN NewCache(CHOOSE s \in new : KeyOf(s) = k, born)
            ELSE cs[k]]

\* Cell.getCell interns every cell generateCaches asks for.
InternedBy(center) == { KeyOf(s) : s \in GenSites(center) }

(***************************************************************************)
(* Visibility filter                                                       *)
(***************************************************************************)
\* updateVisibleCaches: show the caches of the store within the radius,
\* hide those beyond it; markers of no cache in the store are not touched.
updateVisibleCaches(cs, layers, center, radius) ==
    (layers \ { cs[k].marker : k \in { q \in DOMAIN cs :
                   ~WithinRadius(center, cs[q].marker.latLng, radius) } })
    \cup { cs[k].marker : k \in { q \in DOMAIN cs :
                   WithinRadius(center, cs[q].marker.latLng, radius) } }

(***************************************************************************)
(* Persistence codec                                                       *)
(***************************************************************************)
\* userCoins.map(coin => ({serial, initialLat, initialLng}))
PlayerCoinData(coins) ==
    [n \in 1..Len(coins) |->
        Coin(coins[n].serial, coins[n].initialLat, coins[n].initialLng)]

\* Fault variant: the position written is the starting coordinate.
saveGameStateAtStart(pos, coins, cs, layers, status) ==
    [ playerPosition |-> OAKES_CLASSROOM,
      playerCoins |-> [n \in 1..Len(coins) |->
                        [serial |-> coins[n].serial,
                         initialLat |-> coins[n].initialLat,
                         initialLng |-> coins[n].initialLng]],
      caches |-> [k \in { q \in DOMAIN cs : cs[q].marker \in layers } |->
                     [coins |-> cs[k].coins, latLng |-> cs[k].marker.latLng]],
      statusPanelContent |-> status ]

\* Fault variant: every cache of the store is saved.
SavedKeysAll(cs, layers) == DOMAIN cs

\* Only the caches whose marker is on the map are saved.
SavedKeys(cs, layers) == { k \in DOMAIN cs : cs[k].marker \in layers }

\* saveGameState: the value handed to localStorage.setItem.
saveGameState(pos, coins, cs, layers, status) ==
    [ playerPosition |-> pos,
      playerCoins |-> PlayerCoinData(coins),
      caches |-> [k \in SavedKeys(cs, layers) |->
                     [coins |-> cs[k].coins, latLng |-> cs[k].marker.latLng]],
      statusPanelContent |-> status ]

\* JSON.parse(savedState) returns for a text saveGameState wrote and throws
\* for one that is no JSON.
Parses(text) == text # Garbage

\* Fault variant: the player marker is left where the script put it.
LoadedPositionStart(blob) == OAKES_CLASSROOM

\* loadGameState, the player: playerMarker.setLatLng([lat, lng])
LoadedPosition(blob) == blob.playerPosition

\* loadGameState, the inventory: latLng is recreated from the origin.
LoadedCoins(blob) ==
    [n \in 1..Len(blob.playerCoins) |->
        [ serial |-> blob.playerCoins[n].serial,
          latLng |-> LatLng(blob.playerCoins[n].initialLat,
                            blob.playerCoins[n].initialLng),
          initialLat |-> blob.playerCoins[n].initialLat,
          initialLng |-> blob.playerCoins[n].initialLng ]]

\* Fault variant: load refills each pool from the anchor instead of taking
\* the saved pool.
LoadedCachesRegenerated(blob) ==
    [k \in DOMAIN blob.caches |->
        Geocache(MintCoins(NumCoins(blob.caches[k].latLng.lat,
                                    blob.caches[k].latLng.lng),
                           blob.caches[k].latLng.lat, blob.caches[k].latLng.lng),
                 Marker(blob.caches[k].latLng, "load"))]

\* loadGameState, the store: caches.clear(), then one Geocache per entry.
LoadedCaches(blob) ==
    [k \in DOMAIN blob.caches |->
        Geocache(blob.caches[k].coins, Marker(blob.caches[k].latLng, "load"))]

(***************************************************************************)
(* Transfer protocol                                                       *)
(***************************************************************************)
\* addCoins, line 481: if (cache && cache.coins.length > 0)
CanCollect(cs, key) == key \in DOMAIN cs /\ Len(cs[key].coins) > 0

\* depositCoin, line 514: if (cache && userCoins.length > 0)
CanDeposit(cs, coins, key) == key \in DOMAIN cs /\ Len(coins) > 0

\* Fault variant: shift() instead of pop(), the first token is handed over.
PoppedCoinFirst(cs, key) == cs[key].coins[1]

\* cache.coins.pop(): the token taken
PoppedCoin(cs, key) == cs[key].coins[Len(cs[key].coins)]

\* Fault variant: the token is read but not removed from the pool.
CachesAfterCollectKeep(cs, key) == cs

\* cache.coins.pop(): the pool left
CachesAfterCollect(cs, key) ==
    [cs EXCEPT ![key].coins = SubSeq(@, 1, Len(@) - 1)]

\* userCoins.push({serial, latLng: leaflet.latLng(lat, lng), initialLat, initialLng})
CoinsAfterCollect(cs, coins, key, latLng) ==
    Append(coins, [ serial |-> PoppedCoin(cs, key).serial,
                    latLng |-> latLng,
                    initialLat |-> PoppedCoin(cs, key).initialLat,
                    initialLng |-> PoppedCoin(cs, key).initialLng ])

\* Fault variant: the cache is rebuilt with new Geocache(coins, marker),
\* which records the new length as the initial count.
CachesAfterDepositRebuilt(cs, coins, key) ==
    [cs EXCEPT ![key] =
        [ coins |-> Append(cs[key].coins,
                           [serial |-> coins[Len(coins)].serial,
                            initialLat |-> coins[Len(coins)].initialLat,
                            initialLng |-> coins[Len(coins)].initialLng]),
          marker |-> cs[key].marker,
          initialCoinCount |-> Len(cs[key].coins) + 1 ]]

\* Fault variant: the deposited token is stamped with the anchor of the
\* cache that receives it.
CachesAfterDepositRestamped(cs, coins, key) ==
    [cs EXCEPT ![key].coins =
        Append(@, Coin(coins[Len(coins)].serial,
                       cs[key].marker.latLng.lat, cs[key].marker.latLng.lng))]

\* cache.coins.push({serial, initialLat, initialLng}) of userCoins.pop()
CachesAfterDeposit(cs, coins, key) ==
    [cs EXCEPT ![key].coins =
        Append(@, Coin(coins[Len(coins)].serial,
                       coins[Len(coins)].initialLat,
                       coins[Len(coins)].initialLng))]

\* Fault variant: shift() instead of pop(), the oldest token leaves.
CoinsAfterDepositShift(coins) == SubSeq(coins, 2, Len(coins))

\* userCoins.pop(): the inventory left
CoinsAfterDeposit(coins) == SubSeq(coins, 1, Len(coins) - 1)

\* Fault variant: the refusal is written to the status panel.
RefusedCollectReported(cs, coins, status) ==
    [caches |-> cs, userCoins |-> coins,
     statusPanel |-> <<"No coins left in this cache.">>]

\* A press of "Collect Coin" that takes no token: the popup has no listener
\* (popupopen found no cache, line 322), or addCoins takes its else branch
\* and writes to the console only.
RefusedCollect(cs, coins, status) ==
    [caches |-> cs, userCoins |-> coins, statusPanel |-> status]

\* Fault variant: the push is made although userCoins.pop() gave nothing.
RefusedDepositPushes(cs, coins, key) ==
    [caches |-> IF key \in DOMAIN cs /\ coins = <<>>
                THEN [cs EXCEPT ![key].coins = Append(@, Coin(0, 0, 0))]
                ELSE cs,
     userCoins |-> coins]

\* Fault variant: userCoins.pop() runs before the cache is looked up.
RefusedDepositPopsFirst(cs, coins, key) ==
    [caches |-> cs, userCoins |-> SubSeq(coins, 1, Len(coins) - 1)]

\* A press of "Deposit Coin" that moves no token: no listener, or the else
\* branch of depositCoin.
RefusedDeposit(cs, coins, key) == [caches |-> cs, userCoins |-> coins]

(***************************************************************************)
(* Reset                                                                   *)
(***************************************************************************)
\* confirmed?.toLowerCase() === "yes"
ToLowerCase(answer) ==
    IF answer \in {"yes", "Yes", "YES"} THEN "yes" ELSE answer

\* Fault variant: every typed answer confirms.
ConfirmedByAnyText(answer) == answer # "null"

Confirmed(answer) == answer # "null" /\ ToLowerCase(answer) = "yes"

\* Fault variant: the initial tokens are pushed onto the pool the cache has.
ResetCachesAppending(cs) ==
    [k \in DOMAIN cs |->
        [cs[k] EXCEPT !.coins =
            @ \o [s \in 1..cs[k].initialCoinCount |->
                    Coin(s - 1, cs[k].marker.latLng.lat, cs[k].marker.latLng.lng)]]]

\* Array.from({length: cache.initialCoinCount}, (_, i) => ({serial: i, ...latLng}))
ResetCaches(cs) ==
    [k \in DOMAIN cs |->
        [cs[k] EXCEPT !.coins =
            [s \in 1..cs[k].initialCoinCount |->
                Coin(s - 1, cs[k].marker.latLng.lat, cs[k].marker.latLng.lng)]]]

(***************************************************************************)
(* State after the script has run on a page with nothing stored            *)
(***************************************************************************)
StartupCaches == generateCaches(EmptyMap, OAKES_CLASSROOM, "startup")

StartupLayers ==
    updateVisibleCaches(StartupCaches, {}, OAKES_CLASSROOM, VISIBILITY_RADIUS)

Event(op, key, done) == [op |-> op, key |-> key, done |-> done]

HasField(blob, field) == field \in DOMAIN blob

\* The page after the script has run and nothing was loaded.
FreshPage ==
    [ playerPos |-> OAKES_CLASSROOM,
      userCoins |-> <<>>,
      caches |-> StartupCaches,
      statusPanel |-> NoCoinsStatus,
      mapLayers |-> StartupLayers,
      generatedAt |-> <<KeyOf(OAKES_CLASSROOM)>>,
      loadHandler |-> "completed",
      loaded |-> FALSE ]

\* The page after the script has run (startup generation) and the
\* DOMContentLoaded handler has run loadGameState on the stored item.  An
\* exception leaves loadGameState and the handler at the statement that
\* throws: JSON.parse (line 251), or Object.keys(gameState.caches) (line
\* 271) after the player and the inventory were restored and the store
\* was cleared.
loadGameState(stored) ==
    IF stored = NoBlob THEN FreshPage
    ELSE IF ~Parses(stored[1]) THEN [FreshPage EXCEPT !.loadHandler = "threw"]
    ELSE IF ~HasField(stored[1], "caches")
    THEN [FreshPage EXCEPT !.playerPos = LoadedPosition(stored[1]),
                           !.userCoins = LoadedCoins(stored[1]),
                           !.caches = EmptyMap,
                           !.generatedAt = <<>>,
                           !.loadHandler = "threw"]
    ELSE [ playerPos |-> LoadedPosition(stored[1]),
           userCoins |-> LoadedCoins(stored[1]),
           caches |-> LoadedCaches(stored[1]),
           statusPanel |-> stored[1].statusPanelContent,
           mapLayers |-> updateVisibleCaches(LoadedCaches(stored[1]), StartupLayers,
                                             LoadedPosition(stored[1]),
                                             VISIBILITY_RADIUS),
           generatedAt |-> <<>>,
           loadHandler |-> "completed",
           loaded |-> TRUE ]

\* The page opened for the first time: the script has run, then the load
\* handler on what the storage holds.
Init ==
    /\ \E stored \in FirstVisitStorage :
          /\ gameState = stored
          /\ playerPos = loadGameState(stored).playerPos
          /\ userCoins = loadGameState(stored).userCoins
          /\ caches = loadGameState(stored).caches
          /\ statusPanel = loadGameState(stored).statusPanel
          /\ mapLayers = loadGameState(stored).mapLayers
          /\ generatedAt = loadGameState(stored).generatedAt
          /\ loadHandler = loadGameState(stored).loadHandler
    /\ playerMovementHistory = <<OAKES_CLASSROOM>>
    /\ cellInstances = InternedBy(OAKES_CLASSROOM)
    /\ geolocationWatchId = FALSE
    /\ beforeCollect = <<>>
    /\ openPopup = <<>>
    /\ clickListeners = 0
    /\ deferred = <<>>
    /\ steps = 0
    /\ lastEvent = Event("load", NoCell, FALSE)

(***************************************************************************)
(* Handlers                                                                *)
(***************************************************************************)
\* Every handler counts as one event; the model stops after MaxSteps events.
Tick == steps < MaxSteps /\ steps' = steps + 1

\* The tail shared by movePlayer and the watchPosition callback:
\* generateCaches, updateVisibleCaches, saveGameState.
Arrive(newPos) ==
    LET cs == generateCaches(caches, newPos, "move")
        layers == updateVisibleCaches(cs, mapLayers, newPos, VISIBILITY_RADIUS)
    IN  /\ playerPos' = newPos
        /\ caches' = cs
        /\ mapLayers' = layers
        /\ cellInstances' = cellInstances \cup InternedBy(newPos)
        /\ generatedAt' = Append(generatedAt, KeyOf(newPos))
        /\ gameState' = <<saveGameState(newPos, userCoins, cs, layers, statusPanel)>>
        /\ beforeCollect' = <<>>
        /\ UNCHANGED <<userCoins, statusPanel, geolocationWatchId, loadHandler>>
        /\ UNCHANGED popupVars

Directions ==
    { <<TILE_DEGREES, 0>>, <<-TILE_DEGREES, 0>>, <<0, TILE_DEGREES>>, <<0, -TILE_DEGREES>> }

\* movePlayer(latChange, lngChange), the north/south/east/west buttons
MovePlayer(d) ==
    /\ Tick
    /\ Arrive(LatLng(playerPos.lat + d[1], playerPos.lng + d[2]))
    /\ playerMovementHistory' = Append(playerMovementHistory, playerPos')
    /\ lastEvent' = Event("move", KeyOf(playerPos'), TRUE)

\* the "sensor" button
ToggleSensor ==
    /\ Tick
    /\ geolocationWatchId' = ~geolocationWatchId
    /\ lastEvent' = Event("sensor", NoCell, geolocationWatchId')
    /\ beforeCollect' = <<>>
    /\ UNCHANGED <<playerPos, playerMovementHistory, caches, userCoins, mapLayers,
                   statusPanel, gameState, cellInstances, generatedAt, loadHandler>>
    /\ UNCHANGED popupVars

\* the watchPosition callback
SensorUpdate(p) ==
    /\ Tick
    /\ geolocationWatchId
    /\ Arrive(p)
    /\ UNCHANGED playerMovementHistory
    /\ lastEvent' = Event("position", KeyOf(p), TRUE)

\* What addCoins and depositCoin read and write.
World(cs, coins, status, stored) ==
    [caches |-> cs, userCoins |-> coins, statusPanel |-> status, gameState |-> stored]

Now == World(caches, userCoins, statusPanel, gameState)

\* addCoins(cellI, cellJ, lat, lng): one call
addCoins(w, key, latLng) ==
    IF CanCollect(w.caches, key)
    THEN World(CachesAfterCollect(w.caches, key),
               CoinsAfterCollect(w.caches, w.userCoins, key, latLng),
               <<"Collected coin", key[1], key[2], PoppedCoin(w.caches, key).serial>>,
               <<saveGameState(playerPos,
                               CoinsAfterCollect(w.caches, w.userCoins, key, latLng),
                               CachesAfterCollect(w.caches, key),
                               mapLayers,
                               <<"Collected coin", key[1], key[2],
                                 PoppedCoin(w.caches, key).serial>>)>>)
    ELSE World(RefusedCollect(w.caches, w.userCoins, w.statusPanel).caches,
               RefusedCollect(w.caches, w.userCoins, w.statusPanel).userCoins,
               RefusedCollect(w.caches, w.userCoins, w.statusPanel).statusPanel,
               w.gameState)

\* depositCoin(cellI, cellJ, lat, lng): one call
depositCoin(w, key) ==
    IF CanDeposit(w.caches, w.userCoins, key)
    THEN World(CachesAfterDeposit(w.caches, w.userCoins, key),
               CoinsAfterDeposit(w.userCoins),
               <<"Deposited coin", key[1], key[2],
                 w.userCoins[Len(w.userCoins)].serial>>,
               <<saveGameState(playerPos,
                               CoinsAfterDeposit(w.userCoins),
                               CachesAfterDeposit(w.caches, w.userCoins, key),
                               mapLayers,
                               <<"Deposited coin", key[1], key[2],
                                 w.userCoins[Len(w.userCoins)].serial>>)>>)
    ELSE World(RefusedDeposit(w.caches, w.userCoins, key).caches,
               RefusedDeposit(w.caches, w.userCoins, key).userCoins,
               w.statusPanel,
               w.gameState)

\* The popup of marker m is opened, the deferred attachPopupButtons has run,
\* "Collect Coin" is pressed once and the popup is closed: popupopen looks
\* the cell of the marker's coordinate up in the store and attaches the
\* listener when it finds a cache there; the listener calls addCoins.
Collect(m) ==
    LET key == KeyOf(m.latLng)
    IN  /\ Tick
        /\ m \in mapLayers
        /\ cellInstances' = cellInstances \cup {key}
        /\ lastEvent' = Event("addCoins", key, CanCollect(caches, key))
        /\ caches' = addCoins(Now, key, m.latLng).caches
        /\ userCoins' = addCoins(Now, key, m.latLng).userCoins
        /\ statusPanel' = addCoins(Now, key, m.latLng).statusPanel
        /\ gameState' = addCoins(Now, key, m.latLng).gameState
        /\ beforeCollect' = IF CanCollect(caches, key)
                            THEN <<caches[key].coins, userCoins>>
                            ELSE <<>>
        /\ UNCHANGED <<playerPos, playerMovementHistory, mapLayers,
                       geolocationWatchId, generatedAt, loadHandler>>
        /\ UNCHANGED popupVars

\* The popup of marker m is opened, "Deposit Coin" is pressed once and the
\* popup is closed.
Deposit(m) ==
    LET key == KeyOf(m.latLng)
    IN  /\ Tick
        /\ m \in mapLayers
        /\ cellInstances' = cellInstances \cup {key}
        /\ beforeCollect' = <<>>
        /\ lastEvent' = Event("depositCoin", key, CanDeposit(caches, userCoins, key))
        /\ caches' = depositCoin(Now, key).caches
        /\ userCoins' = depositCoin(Now, key).userCoins
        /\ statusPanel' = depositCoin(Now, key).statusPanel
        /\ gameState' = depositCoin(Now, key).gameState
        /\ UNCHANGED <<playerPos, playerMovementHistory, mapLayers,
                       geolocationWatchId, generatedAt, loadHandler>>
        /\ UNCHANGED popupVars

\* resetGameState with the answer given to the prompt
Reset(answer) ==
    /\ Tick
    /\ lastEvent' = [op |-> "reset", key |-> NoCell, done |-> Confirmed(answer),
                      answer |-> answer]
    /\ IF Confirmed(answer)
       THEN LET cs == ResetCaches(caches)
                layers == updateVisibleCaches(cs, mapLayers, OAKES_CLASSROOM,
                                              VISIBILITY_RADIUS)
            IN  /\ playerMovementHistory' = SubSeq(playerMovementHistory, 1, 1)
                /\ playerPos' = OAKES_CLASSROOM
                /\ caches' = cs
                /\ mapLayers' = layers
                /\ userCoins' = <<>>
                /\ gameState' = <<saveGameState(OAKES_CLASSROOM, <<>>, cs, layers,
                                                statusPanel)>>
                /\ statusPanel' = NoCoinsStatus
       ELSE UNCHANGED <<playerMovementHistory, playerPos, caches, mapLayers,
                        userCoins, gameState, statusPanel>>
    /\ beforeCollect' = <<>>
    /\ UNCHANGED <<cellInstances, geolocationWatchId, generatedAt, loadHandler>>
    /\ UNCHANGED popupVars

\* A page reload.  The beforeunload hook, when the load handler of the page
\* got as far as installing it, saves; the script runs again on a fresh
\* page (startup generation); then the load handler runs loadGameState on
\* what the storage holds.
Reload ==
    LET stored == IF loadHandler = "completed"
                  THEN <<saveGameState(playerPos, userCoins, caches, mapLayers,
                                       statusPanel)>>
                  ELSE gameState
    IN  /\ Tick
        /\ gameState' = stored
        /\ playerPos' = loadGameState(stored).playerPos
        /\ userCoins' = loadGameState(stored).userCoins
        /\ caches' = loadGameState(stored).caches
        /\ statusPanel' = loadGameState(stored).statusPanel
        /\ mapLayers' = loadGameState(stored).mapLayers
        /\ generatedAt' = loadGameState(stored).generatedAt
        /\ loadHandler' = loadGameState(stored).loadHandler
        /\ lastEvent' = Event("load", NoCell, loadGameState(stored).loaded)
        /\ playerMovementHistory' = <<OAKES_CLASSROOM>>
        /\ cellInstances' = InternedBy(OAKES_CLASSROOM)
        /\ geolocationWatchId' = FALSE
        /\ beforeCollect' = <<>>
        /\ openPopup' = <<>>
        /\ clickListeners' = 0
        /\ deferred' = <<>>

Next ==
    \/ \E d \in Directions : MovePlayer(d)
    \/ ToggleSensor
    \/ \E p \in SensorPositions : SensorUpdate(p)
    \/ \E m \in mapLayers : Collect(m)
    \/ \E m \in mapLayers : Deposit(m)
    \/ \E answer \in PromptAnswers : Reset(answer)
    \/ Reload

Spec == Init /\ [][Next]_vars

\* One session without load: the page opened with nothing stored, up to,
\* and without, the next reload.
NextInSession ==
    \/ \E d \in Directions : MovePlayer(d)
    \/ ToggleSensor
    \/ \E p \in SensorPositions : SensorUpdate(p)
    \/ \E m \in mapLayers : Collect(m)
    \/ \E m \in mapLayers : Deposit(m)
    \/ \E answer \in PromptAnswers : Reset(answer)

NothingStored == Init /\ gameState = NoBlob

Session == NothingStored /\ [][NextInSession]_vars

(***************************************************************************)
(* Popups.  In Spec a collect or a deposit is one step: popup opened,      *)
(* listener attached, button pressed once.  Here the steps are taken       *)
(* apart: the popupopen handler, the callback it defers with               *)
(* setTimeout(..., 0), the press of a button and the closing of the popup  *)
(* interleave freely.  Leaflet writes the popup's HTML anew each time the  *)
(* popup is opened, so the buttons of a popup just opened carry no         *)
(* listener; at most one popup is open.                                    *)
(***************************************************************************)
PopupTick == steps < MaxPopupSteps /\ steps' = steps + 1

\* A click on marker m whose popup is not open: the popup opens and the
\* popupopen handler runs (lines 317-343).
OpenPopup(m) ==
    /\ PopupTick
    /\ m \in mapLayers
    /\ openPopup # <<m>>
    /\ openPopup' = <<m>>
    /\ clickListeners' = 0
    /\ cellInstances' = cellInstances \cup {KeyOf(m.latLng)}
    /\ IF KeyOf(m.latLng) \in DOMAIN caches
       THEN /\ Len(deferred) < MaxDeferred
            /\ deferred' = Append(deferred, m.latLng)
       ELSE UNCHANGED deferred
    /\ lastEvent' = Event("popupopen", KeyOf(m.latLng), KeyOf(m.latLng) \in DOMAIN caches)
    /\ beforeCollect' = <<>>
    /\ UNCHANGED <<playerPos, playerMovementHistory, caches, userCoins, mapLayers,
                   statusPanel, gameState, geolocationWatchId, generatedAt,
                   loadHandler>>

\* The open popup is closed: its HTML leaves the document.
ClosePopup ==
    /\ PopupTick
    /\ openPopup # <<>>
    /\ openPopup' = <<>>
    /\ clickListeners' = 0
    /\ lastEvent' = Event("popupclose", KeyOf(openPopup[1].latLng), TRUE)
    /\ beforeCollect' = <<>>
    /\ UNCHANGED <<playerPos, playerMovementHistory, caches, userCoins, mapLayers,
                   statusPanel, gameState, cellInstances, geolocationWatchId,
                   generatedAt, loadHandler, deferred>>

\* The oldest deferred callback runs attachPopupButtons(lat, lng):
\* getElementById finds the buttons when a popup of that coordinate is open
\* and adds one click listener to each.
AttachPopupButtons ==
    /\ PopupTick
    /\ deferred # <<>>
    /\ deferred' = Tail(deferred)
    /\ clickListeners' =
          IF openPopup # <<>> /\ openPopup[1].latLng = Head(deferred)
          THEN clickListeners + 1
          ELSE clickListeners
    /\ lastEvent' = Event("attachPopupButtons", KeyOf(Head(deferred)),
                          openPopup # <<>> /\ openPopup[1].latLng = Head(deferred))
    /\ beforeCollect' = <<>>
    /\ UNCHANGED <<playerPos, playerMovementHistory, caches, userCoins, mapLayers,
                   statusPanel, gameState, cellInstances, geolocationWatchId,
                   generatedAt, loadHandler, openPopup>>

\* One click runs every listener of the button, one after the other.
RECURSIVE CollectClicked(_, _, _, _)
CollectClicked(w, key, latLng, listeners) ==
    IF listeners = 0 THEN w
    ELSE CollectClicked(addCoins(w, key, latLng), key, latLng, listeners - 1)

RECURSIVE DepositClicked(_, _, _)
DepositClicked(w, key, listeners) ==
    IF listeners = 0 THEN w
    ELSE DepositClicked(depositCoin(w, key), key, listeners - 1)

\* A press of "Collect Coin" in the open popup.
PressCollect ==
    /\ PopupTick
    /\ openPopup # <<>>
    /\ caches' = CollectClicked(Now, KeyOf(openPopup[1].latLng),
                                openPopup[1].latLng, clickListeners).caches
    /\ userCoins' = CollectClicked(Now, KeyOf(openPopup[1].latLng),
                                   openPopup[1].latLng, clickListeners).userCoins
    /\ statusPanel' = CollectClicked(Now, KeyOf(openPopup[1].latLng),
                                     openPopup[1].latLng, clickListeners).statusPanel
    /\ gameState' = CollectClicked(Now, KeyOf(openPopup[1].latLng),
                                   openPopup[1].latLng, clickListeners).gameState
    /\ cellInstances' = IF clickListeners > 0
                        THEN cellInstances \cup {KeyOf(openPopup[1].latLng)}
                        ELSE cellInstances
    /\ lastEvent' = Event("addCoins", KeyOf(openPopup[1].latLng), userCoins' # userCoins)
    /\ beforeCollect' = <<>>
    /\ UNCHANGED <<playerPos, playerMovementHistory, mapLayers, geolocationWatchId,
                   generatedAt, loadHandler>>
    /\ UNCHANGED popupVars

\* A press of "Deposit Coin" in the open popup.
PressDeposit ==
    /\ PopupTick
    /\ openPopup # <<>>
    /\ caches' = DepositClicked(Now, KeyOf(openPopup[1].latLng), clickListeners).caches
    /\ userCoins' = DepositClicked(Now, KeyOf(openPopup[1].latLng),
                                   clickListeners).userCoins
    /\ statusPanel' = DepositClicked(Now, KeyOf(openPopup[1].latLng),
                                     clickListeners).statusPanel
    /\ gameState' = DepositClicked(Now, KeyOf(openPopup[1].latLng),
                                   clickListeners).gameState
    /\ cellInstances' = IF clickListeners > 0
                        THEN cellInstances \cup {KeyOf(openPopup[1].latLng)}
                        ELSE cellInstances
    /\ lastEvent' = Event("depositCoin", KeyOf(openPopup[1].latLng),
                          userCoins' # userCoins)
    /\ beforeCollect' = <<>>
    /\ UNCHANGED <<playerPos, playerMovementHistory, mapLayers, geolocationWatchId,
                   generatedAt, loadHandler>>
    /\ UNCHANGED popupVars

PopupNext ==
    \/ \E m \in mapLayers : OpenPopup(m)
    \/ ClosePopup
    \/ AttachPopupButtons
    \/ PressCollect
    \/ PressDeposit

PopupSpec == NothingStored /\ [][PopupNext]_vars

(***************************************************************************)
(* Vocabulary of the properties                                            *)
(***************************************************************************)
RECURSIVE SumOfPools(_, _)
SumOfPools(cs, keys) ==
    IF keys = {} THEN 0
    ELSE LET k == CHOOSE q \in keys : TRUE
         IN  Len(cs[k].coins) + SumOfPools(cs, keys \ {k})

\* Number of tokens in all pools and the inventory.
TotalTokens(cs, coins) == SumOfPools(cs, DOMAIN cs) + Len(coins)

\* A token's identity: its serial and its origin.
TokenOf(c) == [serial |-> c.serial, initialLat |-> c.initialLat,
               initialLng |-> c.initialLng]

TokensOf(seq) == [n \in 1..Len(seq) |-> TokenOf(seq[n])]

Range(seq) == { seq[n] : n \in 1..Len(seq) }

\* Every token held by some pool or by the inventory.
AllTokens(cs, coins) ==
    UNION { Range(TokensOf(cs[k].coins)) : k \in DOMAIN cs } \cup Range(TokensOf(coins))

Occurrences(t, seq) == Cardinality({ n \in 1..Len(seq) : TokenOf(seq[n]) = t })

RECURSIVE OccurrencesInPools(_, _, _)
OccurrencesInPools(t, cs, keys) ==
    IF keys = {} THEN 0
    ELSE LET k == CHOOSE q \in keys : TRUE
         IN  Occurrences(t, cs[k].coins) + OccurrencesInPools(t, cs, keys \ {k})

\* Number of places (pool positions, inventory positions) holding token t.
Places(t, cs, coins) == OccurrencesInPools(t, cs, DOMAIN cs) + Occurrences(t, coins)

\* The pool of a cache as generated at anchor a: n tokens, serials 0..n-1.
GeneratedCount(a) == (luck(<<a.lat, a.lng, "initialValue">>) * 100) \div LUCK_SCALE + 1

GeneratedPool(a) == [s \in 1..GeneratedCount(a) |-> Coin(s - 1, a.lat, a.lng)]

Anchor(cache) == cache.marker.latLng

\* The square of cells of side 2r+1 around the cell that holds center.
Square(center, r) ==
    { <<i, j>> : i \in (getCell(center.lat, center.lng).i - r)..(getCell(center.lat, center.lng).i + r),
                 j \in (getCell(center.lat, center.lng).j - r)..(getCell(center.lat, center.lng).j + r) }

IsTransfer(e) == e.op \in {"addCoins", "depositCoin"}
IsArrival(e) == e.op \in {"move", "position"}

(***************************************************************************)
(* C1.  Conservation: a collect or a deposit leaves the number of tokens   *)
(* in all pools plus the inventory as it was.                              *)
(***************************************************************************)
C1_TransferConserves ==
    [][ IsTransfer(lastEvent')
          => TotalTokens(caches', userCoins') = TotalTokens(caches, userCoins) ]_vars

\* A token collected from one cache has just been deposited into another.
C1_Witness ==
    /\ lastEvent.op = "depositCoin"
    /\ lastEvent.done
    /\ \E t \in Range(caches[lastEvent.key].coins) :
          LatLng(t.initialLat, t.initialLng) # Anchor(caches[lastEvent.key])

(***************************************************************************)
(* C2.  Across a save and a page reload no token is lost or duplicated:    *)
(* every token held before the reload is in exactly one place after it.    *)
(***************************************************************************)
C2_ReloadKeepsEveryToken ==
    [][ lastEvent'.op = "load"
          => \A t \in AllTokens(caches, userCoins) :
                Places(t, caches', userCoins') = 1 ]_vars

(***************************************************************************)
(* C3.  Round trip: a save followed by a load gives every cache that was   *)
(* visible at the save the same ordered pool under the same key, and the   *)
(* inventory the same tokens in the same order.                            *)
(***************************************************************************)
C3_RoundTrip ==
    [][ lastEvent'.op = "load"
          => /\ \A k \in DOMAIN caches :
                   caches[k].marker \in mapLayers
                     => /\ k \in DOMAIN caches'
                        /\ TokensOf(caches'[k].coins) = TokensOf(caches[k].coins)
             /\ TokensOf(userCoins') = TokensOf(userCoins) ]_vars

\* A page reloaded with a token in the inventory and a visible cache that
\* no longer holds what it was generated with.
C3_Witness ==
    /\ lastEvent.op = "load"
    /\ lastEvent.done
    /\ Len(userCoins) > 0
    /\ \E k \in DOMAIN caches :
          /\ caches[k].marker \in mapLayers
          /\ caches[k].coins # <<>>
          /\ caches[k].coins # GeneratedPool(Anchor(caches[k]))

(***************************************************************************)
(* C4.  After a confirmed reset every cache holds the tokens it was        *)
(* generated with (serials 0..n-1, origin its anchor) and the inventory is *)
(* empty.                                                                  *)
(***************************************************************************)
C4_ResetRestoresGenerated ==
    [][ (lastEvent'.op = "reset" /\ lastEvent'.done)
          => /\ userCoins' = <<>>
             /\ \A k \in DOMAIN caches' :
                   caches'[k].coins = GeneratedPool(Anchor(caches'[k])) ]_vars

(***************************************************************************)
(* C5.  A cell that has a cache keeps it through every later event.        *)
(***************************************************************************)
C5_CacheNeverDestroyed ==
    [][ DOMAIN caches \subseteq DOMAIN caches' ]_vars

(***************************************************************************)
(* C6.  The token count of the cache generated for a cell does not depend  *)
(* on the coordinates the player reached the cell from: it is the count    *)
(* the cell gets in the run that reaches it by manual moves from the start. *)
(***************************************************************************)
\* The anchor a cell gets when it is generated after manual moves alone:
\* the starting coordinate shifted by whole tiles.
ManualAnchor(key) ==
    LatLng(key[1] * TILE_DEGREES + (OAKES_CLASSROOM.lat % TILE_DEGREES),
           key[2] * TILE_DEGREES + (OAKES_CLASSROOM.lng % TILE_DEGREES))

C6_CountPerCell ==
    [][ \A k \in DOMAIN caches' \ DOMAIN caches :
           caches'[k].initialCoinCount = GeneratedCount(ManualAnchor(k)) ]_vars

(***************************************************************************)
(* C7.  generateCaches called again with a centre in a cell it was already *)
(* called with (no load in between) changes nothing in the store.          *)
(***************************************************************************)
C7_GenerateIdempotent ==
    [][ (IsArrival(lastEvent') /\ KeyOf(playerPos') \in Range(generatedAt))
          => caches' = caches ]_vars

\* A second call centred in the cell of an earlier call, made after a
\* collect has changed a pool.
C7_Witness ==
    /\ lastEvent.op = "position"
    /\ Len(generatedAt) >= 2
    /\ generatedAt[Len(generatedAt)] \in Range(SubSeq(generatedAt, 1, Len(generatedAt) - 1))
    /\ Len(userCoins) > 0

(***************************************************************************)
(* C8.  After generateCaches(center, r, T) each cell of the square of side *)
(* 2r+1 around the cell of center has a cache iff luck(key) is below the   *)
(* spawn probability, and no cell outside the square got a new cache.      *)
(***************************************************************************)
C8_SquareFilled ==
    /\ []((steps = 0 /\ generatedAt # <<>>)
            => /\ \A k \in Square(OAKES_CLASSROOM, NEIGHBORHOOD_SIZE) :
                     k \in DOMAIN caches <=> luck(k) < CACHE_SPAWN_PROBABILITY
               /\ DOMAIN caches \subseteq Square(OAKES_CLASSROOM, NEIGHBORHOOD_SIZE))
    /\ [][ IsArrival(lastEvent')
            => /\ \A k \in Square(playerPos', NEIGHBORHOOD_SIZE) :
                     k \in DOMAIN caches' <=> luck(k) < CACHE_SPAWN_PROBABILITY
               /\ (DOMAIN caches' \ DOMAIN caches)
                     \subseteq Square(playerPos', NEIGHBORHOOD_SIZE) ]_vars

\* A move has just brought a new cell with a cache into the square.
C8_Witness ==
    /\ lastEvent.op = "move"
    /\ \E k \in DOMAIN caches :
          /\ caches[k].marker.born = "move"
          /\ k \notin Square(OAKES_CLASSROOM, NEIGHBORHOOD_SIZE)
          /\ k \in Square(playerPos, NEIGHBORHOOD_SIZE)

(***************************************************************************)
(* C9.  A freshly generated cache holds n = floor(luck * 100) + 1 tokens,  *)
(* 1 <= n <= 100, with serials 0..n-1 in pool order and its anchor as      *)
(* origin, and records n as its initial count.                             *)
(***************************************************************************)
FreshlyGenerated(cache) ==
    LET n == (luck(<<Anchor(cache).lat, Anchor(cache).lng, "initialValue">>) * 100)
                \div LUCK_SCALE + 1
    IN  /\ 1 <= n /\ n <= 100
        /\ Len(cache.coins) = n
        /\ \A s \in 1..n :
              cache.coins[s] = Coin(s - 1, Anchor(cache).lat, Anchor(cache).lng)
        /\ cache.initialCoinCount = n

C9_FreshCache ==
    /\ [](steps = 0 => \A k \in DOMAIN caches : FreshlyGenerated(caches[k]))
    /\ [][ \A k \in DOMAIN caches' \ DOMAIN caches :
              FreshlyGenerated(caches'[k]) ]_vars

\* A move has just generated the cache whose salted luck is 0.305: 31 tokens.
C9_Witness ==
    /\ lastEvent.op = "move"
    /\ \E k \in DOMAIN caches :
          /\ caches[k].marker.born = "move"
          /\ luck(<<Anchor(caches[k]).lat, Anchor(caches[k]).lng, "initialValue">>) = 305
          /\ Len(caches[k].coins) = 31

(***************************************************************************)
(* C10.  A collect on a cache with a non-empty pool removes the last token *)
(* of the pool and appends a token with its serial and origin to the       *)
(* inventory.                                                              *)
(***************************************************************************)
C10_CollectPopsLast ==
    [][ (lastEvent'.op = "addCoins"
         /\ lastEvent'.key \in DOMAIN caches
         /\ Len(caches[lastEvent'.key].coins) > 0)
          => LET pool == caches[lastEvent'.key].coins
             IN  /\ caches'[lastEvent'.key].coins = SubSeq(pool, 1, Len(pool) - 1)
                 /\ Len(userCoins') = Len(userCoins) + 1
                 /\ SubSeq(userCoins', 1, Len(userCoins)) = userCoins
                 /\ TokenOf(userCoins'[Len(userCoins')]) = TokenOf(pool[Len(pool)]) ]_vars

\* The only token of a cache generated with one token has been collected.
C10_Witness ==
    /\ lastEvent.op = "addCoins"
    /\ lastEvent.done
    /\ caches[lastEvent.key].initialCoinCount = 1
    /\ caches[lastEvent.key].coins = <<>>
    /\ Len(userCoins) = 1

(***************************************************************************)
(* C11.  A deposit with a non-empty inventory into an existing cache takes *)
(* the last token of the inventory and appends a token with its serial and *)
(* origin to the pool; a deposit that follows a collect on the same cache  *)
(* gives back the pool and the inventory as they were before the collect.  *)
(***************************************************************************)
C11_DepositPopsLast ==
    [][ (lastEvent'.op = "depositCoin"
         /\ lastEvent'.key \in DOMAIN caches
         /\ Len(userCoins) > 0)
          => /\ userCoins' = SubSeq(userCoins, 1, Len(userCoins) - 1)
             /\ caches'[lastEvent'.key].coins =
                   Append(caches[lastEvent'.key].coins,
                          TokenOf(userCoins[Len(userCoins)]))
             /\ (lastEvent.op = "addCoins" /\ lastEvent.done
                 /\ lastEvent.key = lastEvent'.key)
                   => /\ caches'[lastEvent'.key].coins = beforeCollect[1]
                      /\ userCoins' = beforeCollect[2] ]_vars

\* The inventory held tokens of two caches; its last one has been put back
\* where it had just been taken, and the older one is still held.
C11_Witness ==
    /\ lastEvent.op = "depositCoin"
    /\ lastEvent.done
    /\ Len(userCoins) = 1
    /\ LatLng(userCoins[1].initialLat, userCoins[1].initialLng)
          # Anchor(caches[lastEvent.key])
    /\ caches[lastEvent.key].coins = GeneratedPool(Anchor(caches[lastEvent.key]))

(***************************************************************************)
(* C12.  A collect on a cache whose pool is empty changes nothing: the     *)
(* pools, the inventory, the status text and the stored snapshot stay as   *)
(* they are.                                                               *)
(***************************************************************************)
C12_EmptyCacheNoOp ==
    [][ (lastEvent'.op = "addCoins"
         /\ lastEvent'.key \in DOMAIN caches
         /\ caches[lastEvent'.key].coins = <<>>)
          => /\ caches' = caches
             /\ userCoins' = userCoins
             /\ statusPanel' = statusPanel
             /\ gameState' = gameState ]_vars

\* "Collect Coin" has been pressed on a cache that was emptied before.
C12_Witness ==
    /\ lastEvent.op = "addCoins"
    /\ ~lastEvent.done
    /\ lastEvent.key \in DOMAIN caches
    /\ caches[lastEvent.key].coins = <<>>
    /\ caches[lastEvent.key].initialCoinCount > 0
    /\ Len(userCoins) > 0

(***************************************************************************)
(* C13.  A deposit with an empty inventory changes nothing: the pool of    *)
(* the cache and its token count stay as they are and the inventory stays  *)
(* empty.                                                                  *)
(***************************************************************************)
C13_EmptyInventoryNoOp ==
    [][ (lastEvent'.op = "depositCoin"
         /\ lastEvent'.key \in DOMAIN caches
         /\ userCoins = <<>>)
          => /\ caches'[lastEvent'.key].coins = caches[lastEvent'.key].coins
             /\ caches' = caches
             /\ userCoins' = <<>> ]_vars

\* "Deposit Coin" has been pressed on a cache with nothing in the inventory.
C13_Witness ==
    /\ lastEvent.op = "depositCoin"
    /\ ~lastEvent.done
    /\ lastEvent.key \in DOMAIN caches
    /\ userCoins = <<>>
    /\ Len(caches[lastEvent.key].coins) > 0

(***************************************************************************)
(* C14.  A collect or a deposit on a cell that has no cache in the store   *)
(* (a marker of the startup generation, after a load has replaced the      *)
(* store) changes no pool and not the inventory.                           *)
(***************************************************************************)
C14_MissingCacheNoOp ==
    [][ (IsTransfer(lastEvent') /\ lastEvent'.key \notin DOMAIN caches)
          => /\ caches' = caches
             /\ userCoins' = userCoins ]_vars

\* "Deposit Coin" has been pressed, with a token in the inventory, on a
\* marker of the startup generation whose cell the loaded store lacks.
C14_Witness ==
    /\ lastEvent.op = "depositCoin"
    /\ ~lastEvent.done
    /\ lastEvent.key \notin DOMAIN caches
    /\ Len(userCoins) > 0
    /\ \E m \in mapLayers : m.born = "startup" /\ KeyOf(m.latLng) = lastEvent.key

(***************************************************************************)
(* C15.  When the stored text does not parse, the load handler ends        *)
(* without an error, having installed the save-before-unload hook, and the *)
(* player, the inventory and the store are those of a fresh start.         *)
(***************************************************************************)
FreshStart ==
    /\ playerPos = OAKES_CLASSROOM
    /\ userCoins = <<>>
    /\ caches = StartupCaches

C15_CorruptSnapshotAsAbsent ==
    (lastEvent.op = "load" /\ gameState # NoBlob /\ ~Parses(gameState[1]))
      => (FreshStart /\ loadHandler = "completed")

(***************************************************************************)
(* C16.  After a load of a stored snapshot the store holds the caches of   *)
(* the snapshot and no other (same keys, pools, anchors), the inventory    *)
(* holds the tokens of the snapshot, and the marker of every cache of the  *)
(* store is on the map.                                                    *)
(***************************************************************************)
C16_LoadRebuildsSnapshot ==
    (lastEvent.op = "load" /\ lastEvent.done)
      => /\ DOMAIN caches = DOMAIN gameState[1].caches
         /\ \A k \in DOMAIN caches :
               /\ caches[k].coins = gameState[1].caches[k].coins
               /\ Anchor(caches[k]) = gameState[1].caches[k].latLng
               /\ caches[k].marker \in mapLayers
         /\ TokensOf(userCoins) = gameState[1].playerCoins

\* A snapshot taken away from the start, with a cache that cannot be seen
\* from the start and a token in the inventory, has been loaded.
C16_Witness ==
    /\ lastEvent.op = "load"
    /\ lastEvent.done
    /\ Len(userCoins) > 0
    /\ playerPos # OAKES_CLASSROOM
    /\ \E k \in DOMAIN caches :
          ~WithinRadius(OAKES_CLASSROOM, Anchor(caches[k]), VISIBILITY_RADIUS)

(***************************************************************************)
(* C17.  After a move (manual or sensor), a reset and a load, the markers  *)
(* on the map are the markers of the caches of the store within the        *)
(* visibility radius of the player, and no other marker.                   *)
(***************************************************************************)
VisibleMarkers ==
    { caches[k].marker : k \in { q \in DOMAIN caches :
          WithinRadius(playerPos, Anchor(caches[q]), VISIBILITY_RADIUS) } }

C17_ShownIffWithinRadius ==
    (IsArrival(lastEvent) \/ lastEvent.op = "load"
        \/ (lastEvent.op = "reset" /\ lastEvent.done))
      => mapLayers = VisibleMarkers

(***************************************************************************)
(* C18.  The snapshot saveGameState writes has an entry for a cache iff    *)
(* the marker of the cache is on the map at the save; an entry carries the *)
(* anchor and the whole pool of its cache; the snapshot carries the player *)
(* position and the serial and origin of every token of the inventory.     *)
(***************************************************************************)
SnapshotOf(blob, pos, coins, cs, layers) ==
    /\ DOMAIN blob.caches \subseteq DOMAIN cs
    /\ \A k \in DOMAIN cs : k \in DOMAIN blob.caches <=> cs[k].marker \in layers
    /\ \A k \in DOMAIN blob.caches :
          /\ blob.caches[k].latLng = Anchor(cs[k])
          /\ blob.caches[k].coins = cs[k].coins
    /\ blob.playerPosition = pos
    /\ Len(blob.playerCoins) = Len(coins)
    /\ \A n \in 1..Len(coins) :
          /\ blob.playerCoins[n].serial = coins[n].serial
          /\ blob.playerCoins[n].initialLat = coins[n].initialLat
          /\ blob.playerCoins[n].initialLng = coins[n].initialLng

\* The handlers that end with a call of saveGameState.
Saves(e) ==
    \/ IsArrival(e)
    \/ IsTransfer(e) /\ e.done
    \/ e.op = "reset" /\ e.done

C18_SnapshotOfVisible ==
    [][ /\ Saves(lastEvent')
          => SnapshotOf(gameState'[1], playerPos', userCoins', caches', mapLayers')
        /\ (lastEvent'.op = "load" /\ loadHandler = "completed")
          => SnapshotOf(gameState'[1], playerPos, userCoins, caches, mapLayers) ]_vars

\* A collect has saved while the store held a cache that is not on the map.
C18_Witness ==
    /\ lastEvent.op = "addCoins"
    /\ lastEvent.done
    /\ \E k \in DOMAIN caches : caches[k].marker \notin mapLayers
    /\ \E k \in DOMAIN caches : caches[k].marker \in mapLayers
    /\ DOMAIN gameState[1].caches # DOMAIN caches

(***************************************************************************)
(* C19.  A sensor update to p leaves the state a manual move ending at p   *)
(* leaves: the same position, store, markers on the map, stored snapshot   *)
(* and movement history.                                                   *)
(***************************************************************************)
C19_SensorAsManualMove ==
    [][ lastEvent'.op = "position"
          => /\ caches' = generateCaches(caches, playerPos', "move")
             /\ mapLayers' = updateVisibleCaches(caches', mapLayers, playerPos',
                                                 VISIBILITY_RADIUS)
             /\ gameState' = <<saveGameState(playerPos', userCoins, caches',
                                             mapLayers', statusPanel)>>
             /\ playerMovementHistory' = Append(playerMovementHistory, playerPos') ]_vars

(***************************************************************************)
(* C20.  Through a collect, a deposit, a move and a load every token keeps *)
(* its serial and origin: a token that stays in its pool or in the         *)
(* inventory is the same token after the step, and a token handed over     *)
(* arrives with the serial and origin it left with.                        *)
(***************************************************************************)
Shorter(a, b) == IF Len(a) <= Len(b) THEN Len(a) ELSE Len(b)

C20_OriginKept ==
    [][ (IsTransfer(lastEvent') \/ IsArrival(lastEvent') \/ lastEvent'.op = "load")
          => /\ \A k \in DOMAIN caches \cap DOMAIN caches' :
                   \A n \in 1..Shorter(caches[k].coins, caches'[k].coins) :
                      caches'[k].coins[n] = caches[k].coins[n]
             /\ \A n \in 1..Shorter(userCoins, userCoins') :
                   TokenOf(userCoins'[n]) = TokenOf(userCoins[n])
             /\ (lastEvent'.op = "addCoins" /\ lastEvent'.done)
                   => TokenOf(userCoins'[Len(userCoins')])
                        = PoppedCoin(caches, lastEvent'.key)
             /\ (lastEvent'.op = "depositCoin" /\ lastEvent'.done)
                   => caches'[lastEvent'.key].coins[Len(caches'[lastEvent'.key].coins)]
                        = TokenOf(userCoins[Len(userCoins)]) ]_vars

\* A loaded pool holds a token that was generated at another cache.
C20_Witness ==
    /\ lastEvent.op = "load"
    /\ lastEvent.done
    /\ \E k \in DOMAIN caches : \E n \in 1..Len(caches[k].coins) :
          LatLng(caches[k].coins[n].initialLat, caches[k].coins[n].initialLng)
            # Anchor(caches[k])

(***************************************************************************)
(* C21.  The initial count a cache records is, in every state, the number  *)
(* of tokens the cache was generated with at its anchor, also for a cache  *)
(* rebuilt by a load after collects or deposits.                           *)
(***************************************************************************)
C21_InitialCountImmutable ==
    \A k \in DOMAIN caches :
       caches[k].initialCoinCount = GeneratedCount(Anchor(caches[k]))

(***************************************************************************)
(* C22.  In a session without load, whatever moves, collects, deposits and *)
(* resets were made, no two tokens of the pools and the inventory have the *)
(* same origin and the same serial.                                        *)
(***************************************************************************)
C22_SerialsUnique ==
    \A t \in AllTokens(caches, userCoins) : Places(t, caches, userCoins) = 1

\* A reset has just been confirmed after a token had been deposited.
C22_Witness ==
    /\ lastEvent.op = "reset"
    /\ lastEvent.done
    /\ gameState[1].statusPanelContent[1] = "Deposited coin"
    /\ \E k \in DOMAIN caches : Len(caches[k].coins) > 1

(***************************************************************************)
(* C23.  A press of "Collect Coin" or "Deposit Coin" moves one token at    *)
(* most, however often the popup was opened before and in whatever order   *)
(* popupopen handlers, deferred callbacks and presses ran: the inventory   *)
(* grows or shrinks by one token or stays.                                 *)
(***************************************************************************)
C23_OneTokenPerPress ==
    [][ IsTransfer(lastEvent')
          => /\ Len(userCoins') <= Len(userCoins) + 1
             /\ Len(userCoins) <= Len(userCoins') + 1 ]_vars

(***************************************************************************)
(* C24.  getCell is canonical: it returns the pair (i, j) with             *)
(* i*T <= lat < (i+1)*T and j*T <= lng < (j+1)*T, also for negative        *)
(* coordinates, so two coordinates of one cell get the same pair and the   *)
(* same interned cell; within a page the set of interned cells only grows. *)
(***************************************************************************)
IsFloor(i, x) == i * TILE_DEGREES <= x /\ x < (i + 1) * TILE_DEGREES

Coordinates == (-MaxCoordinate)..MaxCoordinate

C24_GetCellCanonical ==
    /\ [](\A lat \in Coordinates, lng \in Coordinates :
             /\ IsFloor(getCell(lat, lng).i, lat)
             /\ IsFloor(getCell(lat, lng).j, lng))
    /\ [][ lastEvent'.op # "load" => cellInstances \subseteq cellInstances' ]_vars

\* A move has interned cells with negative indices next to those of the
\* startup generation.
C24_Witness ==
    /\ lastEvent.op = "move"
    /\ cellInstances # InternedBy(OAKES_CLASSROOM)
    /\ \E k \in cellInstances \ InternedBy(OAKES_CLASSROOM) : k[1] < 0 /\ k[2] < 0

(***************************************************************************)
(* C25.  A move (manual or sensor) leaves every cache the store already    *)
(* has as it is (pool, anchor, initial count) and leaves the inventory as  *)
(* it is.                                                                  *)
(***************************************************************************)
C25_MoveKeepsCaches ==
    [][ IsArrival(lastEvent')
          => /\ \A k \in DOMAIN caches :
                   /\ k \in DOMAIN caches'
                   /\ caches'[k].coins = caches[k].coins
                   /\ Anchor(caches'[k]) = Anchor(caches[k])
                   /\ caches'[k].initialCoinCount = caches[k].initialCoinCount
             /\ userCoins' = userCoins ]_vars

\* A move has added a cache and hidden one whose pool had been changed,
\* with a token in the inventory.
C25_Witness ==
    /\ IsArrival(lastEvent)
    /\ Len(userCoins) > 0
    /\ \E k \in DOMAIN caches : caches[k].marker.born = "move"
    /\ \E k \in DOMAIN caches :
          /\ caches[k].marker \notin mapLayers
          /\ Len(caches[k].coins) # caches[k].initialCoinCount

(***************************************************************************)
(* C26.  A collect or a deposit on a cache leaves the pools of the other   *)
(* caches, the keys of the store, every initial count, the player position *)
(* and the markers on the map as they are.                                 *)
(***************************************************************************)
C26_TransferFrame ==
    [][ IsTransfer(lastEvent')
          => /\ DOMAIN caches' = DOMAIN caches
             /\ \A k \in DOMAIN caches :
                   /\ k # lastEvent'.key => caches'[k].coins = caches[k].coins
                   /\ caches'[k].initialCoinCount = caches[k].initialCoinCount
             /\ playerPos' = playerPos
             /\ mapLayers' = mapLayers ]_vars

\* A deposit has put a token into a cache while another cache holds fewer
\* tokens than it was generated with.
C26_Witness ==
    /\ lastEvent.op = "depositCoin"
    /\ lastEvent.done
    /\ Len(caches[lastEvent.key].coins) > caches[lastEvent.key].initialCoinCount
    /\ \E k \in DOMAIN caches :
          k # lastEvent.key /\ Len(caches[k].coins) < caches[k].initialCoinCount

(***************************************************************************)
(* C27.  A load that fails part-way, on a stored text that parses, leaves  *)
(* the player position, the inventory and the store as they were before    *)
(* the load: those of the fresh page.                                      *)
(***************************************************************************)
C27_LoadAllOrNothing ==
    (lastEvent.op = "load" /\ gameState # NoBlob /\ Parses(gameState[1])
        /\ loadHandler = "threw")
      => /\ playerPos = OAKES_CLASSROOM
         /\ userCoins = <<>>
         /\ caches = StartupCaches

(***************************************************************************)
(* C28.  After a move, a collect or deposit that moved a token and a       *)
(* confirmed reset, the stored snapshot has the player position, the       *)
(* inventory tokens and the pools of the caches on the map that the        *)
(* program has in memory.                                                  *)
(***************************************************************************)
C28_SnapshotCurrent ==
    Saves(lastEvent)
      => /\ gameState # NoBlob
         /\ gameState[1].playerPosition = playerPos
         /\ gameState[1].playerCoins = TokensOf(userCoins)
         /\ \A k \in DOMAIN caches :
               caches[k].marker \in mapLayers
                 => /\ k \in DOMAIN gameState[1].caches
                    /\ gameState[1].caches[k].coins = caches[k].coins

\* A collect was made away from the start.
C28_Witness ==
    /\ lastEvent.op = "addCoins"
    /\ lastEvent.done
    /\ playerPos # OAKES_CLASSROOM
    /\ caches[lastEvent.key].marker \in mapLayers

(***************************************************************************)
(* C29.  After a confirmed reset the status text of the stored snapshot is *)
(* the status text shown, "Player has no coins".                           *)
(***************************************************************************)
C29_ResetStatusStored ==
    (lastEvent.op = "reset" /\ lastEvent.done)
      => /\ statusPanel = NoCoinsStatus
         /\ gameState[1].statusPanelContent = statusPanel

(***************************************************************************)
(* C30.  Every cache of the store is stored under the key of the cell that *)
(* holds its anchor, key = (floor(lat/T), floor(lng/T)), and that cell     *)
(* passes the spawn check; the key a popup handler computes from the       *)
(* anchor is the key of the cache.                                         *)
(***************************************************************************)
C30_KeyOfAnchorCell ==
    \A k \in DOMAIN caches :
       /\ IsFloor(k[1], Anchor(caches[k]).lat)
       /\ IsFloor(k[2], Anchor(caches[k]).lng)
       /\ luck(k) < CACHE_SPAWN_PROBABILITY
       /\ KeyOf(Anchor(caches[k])) = k

\* The store holds a loaded cache and one generated by a later move, at
\* anchors with negative coordinates.
C30_Witness ==
    /\ \E k \in DOMAIN caches : caches[k].marker.born = "load"
    /\ \E k \in DOMAIN caches :
          caches[k].marker.born = "move" /\ Anchor(caches[k]).lng < 0

(***************************************************************************)
(* C31.  A reset whose prompt is dismissed or answered with a text other   *)
(* than "yes" in any letter case changes nothing: the player position, the *)
(* movement history, the store with every pool, the inventory, the markers *)
(* on the map, the status text and the stored snapshot stay as they are.   *)
(***************************************************************************)
YesInAnyCase == {"yes", "Yes", "yEs", "yeS", "YEs", "YeS", "yES", "YES"}

C31_UnconfirmedResetNoOp ==
    [][ (lastEvent'.op = "reset" /\ lastEvent'.answer \notin YesInAnyCase)
          => UNCHANGED <<playerPos, playerMovementHistory, caches, userCoins,
                         mapLayers, statusPanel, gameState>> ]_vars

\* The prompt of a reset was answered "no" after a move and a collect, with
\* a pool below its initial count: a state a confirmed reset would change.
C31_Witness ==
    /\ lastEvent.op = "reset"
    /\ lastEvent.answer = "no"
    /\ playerPos # OAKES_CLASSROOM
    /\ Len(playerMovementHistory) > 1
    /\ userCoins # <<>>
    /\ \E k \in DOMAIN caches : Len(caches[k].coins) < caches[k].initialCoinCount

\* As C31_Witness, for a dismissed prompt.
C31_WitnessDismissed ==
    /\ lastEvent.op = "reset"
    /\ lastEvent.answer = "null"
    /\ userCoins # <<>>

====
